---------------------------- MODULE Spec2Model ----------------------------
(***************************************************************************)
(* Model of the retrieval-and-answer core of the knowledge base:           *)
(*   - split_text        (src/core/document_processor.py)                  *)
(*   - ask_knowledge     (src/core/rag_service.py)                         *)
(*   - add_knowledge, list_knowledge, delete_knowledge                     *)
(*                       (src/core/knowledge_store.py)                     *)
(*   - update_knowledge  (forwarded by src/tools/knowledge_tool.py)        *)
(*   - search_knowledge, get_stats, and the lazily built client,           *)
(*     embedding function and collection guarded by _init_lock             *)
(*                       (src/core/knowledge_store.py)                     *)
(* Characters are written as ASCII tokens: "NL" is the line feed, "SP" the *)
(* space, "JU" the ideographic full stop U+3002, "TAN" U+FF01, "WEN"       *)
(* U+FF1F, "FEN" U+FF1B, "DOT" '.', "BANG" '!', "QM" '?', "a" any other    *)
(* character.  A text is a sequence of such tokens.                        *)
(***************************************************************************)
EXTENDS Integers, Sequences, FiniteSets, TLC

(* ------------------------------ bounds -------------------------------- *)
MaxLen == 5
MaxChunk == 4

Chars == {"a", "SP", "NL", "JU", "DOT"}
Whitespace == {"SP", "NL"}
Texts == UNION {[1..n -> Chars] : n \in 0..MaxLen}
MaxWindows == MaxLen + 1
MaxItems == 2
MaxLongItems == 1
MaxResults == 3
MaxWeb == 2
MaxThreads == 2
MaxSpecial == 3
MaxCalls == 3

VARIABLES raw, text, chunk_size, chunk_overlap, start, windows, chunks, pcS

splitVars == <<raw, text, chunk_size, chunk_overlap, start, windows, chunks, pcS>>

VARIABLES index, rawFiles, attachments, fsCaseSensitive, cfgChunking, pool, nextId,
          pcAdd, addVia, addId, addContent, addChunks, addWritten, addMeta, storeCalls,
          addBatches, addDisturbed, returnedIds, deletedIds, lastDelete,
          addGiven, addAi, addCollectionOk

\* the inputs of the add_knowledge call in progress: title, tags and source
\* as passed, what generate_metadata did, whether get_collection answered
addInputs == <<addGiven, addAi, addCollectionOk>>

storeVars == <<index, rawFiles, attachments, fsCaseSensitive, cfgChunking, pool, nextId,
               pcAdd, addVia, addId, addContent, addChunks, addWritten, addMeta,
               storeCalls, addBatches, addDisturbed, returnedIds, deletedIds, lastDelete,
               addGiven, addAi, addCollectionOk>>

VARIABLES pcA, cfg, results, high_quality, low_quality, web_outcome, web_results_used,
          context_parts, sources, profile_outcome, profile_ctx, system_prompt, calls,
          response

askVars == <<pcA, cfg, results, high_quality, low_quality, web_outcome, web_results_used,
             context_parts, sources, profile_outcome, profile_ctx, system_prompt, calls,
             response>>

VARIABLES pcRead, readOp, readArgs, readN, readRecount, lastRead, readPool

readVars == <<pcRead, readOp, readArgs, readN, readRecount, lastRead, readPool>>

VARIABLES instances, built, init_lock, stack, ret, callsLeft

initVars == <<instances, built, init_lock, stack, ret, callsLeft>>

vars == <<splitVars, storeVars, askVars, initVars, readVars>>
notSplit == <<storeVars, askVars, initVars, readVars>>
notStore == <<splitVars, askVars, initVars, readVars>>
notAsk == <<splitVars, storeVars, initVars, readVars>>
notInit == <<splitVars, storeVars, askVars, readVars>>
notRead == <<splitVars, storeVars, askVars, initVars>>

(* ------------------------- Python string helpers ---------------------- *)
Min(a, b) == IF a < b THEN a ELSE b
Max(a, b) == IF a > b THEN a ELSE b

\* a slice index i of a string of length n, as Python normalises it
PyIndex(i, n) == IF i < 0 THEN Max(i + n, 0) ELSE Min(i, n)

\* s[a:b]
PySlice(s, a, b) ==
    LET lo == PyIndex(a, Len(s))
        hi == PyIndex(b, Len(s))
    IN  IF lo >= hi THEN <<>> ELSE SubSeq(s, lo + 1, hi)

\* s[a:]
PySliceFrom(s, a) == PySlice(s, a, Len(s))

\* s.rfind(sub, a, b): highest 0-based index of sub lying wholly in s[a:b]
PyRfind(s, sub, a, b) ==
    LET lo == PyIndex(a, Len(s))
        hi == PyIndex(b, Len(s))
        found == {p \in lo..(hi - Len(sub)) : SubSeq(s, p + 1, p + Len(sub)) = sub}
    IN  IF found = {} THEN -1 ELSE CHOOSE p \in found : \A q \in found : q <= p

RECURSIVE LStrip(_)
LStrip(s) == IF s # <<>> /\ Head(s) \in Whitespace THEN LStrip(Tail(s)) ELSE s

RECURSIVE RStrip(_)
RStrip(s) ==
    IF s # <<>> /\ s[Len(s)] \in Whitespace THEN RStrip(SubSeq(s, 1, Len(s) - 1)) ELSE s

\* s.strip()
Strip(s) == RStrip(LStrip(s))

(* ------------------------------ split_text ---------------------------- *)
break_chars ==
    << <<"NL", "NL">>, <<"NL">>, <<"JU">>, <<"TAN">>, <<"WEN">>,
       <<"DOT", "SP">>, <<"BANG", "SP">>, <<"QM", "SP">>, <<"FEN">> >>

\* the for loop over break_chars, from marker i on, with best_break so far
RECURSIVE BestBreakFrom(_, _, _, _, _)
BestBreakFrom(t, lo, hi, i, best) ==
    IF i > Len(break_chars) THEN best
    ELSE LET bc == break_chars[i]
             pos == PyRfind(t, bc, lo, hi)
         IN  BestBreakFrom(t, lo, hi, i + 1, IF pos > best THEN pos + Len(bc) ELSE best)

\* variant: the markers are searched in the whole window, not its second half
best_break_WholeWindow(t, st, cs) == BestBreakFrom(t, st, st + cs, 1, -1)

best_break(t, st, cs) == BestBreakFrom(t, st + (cs \div 2), st + cs, 1, -1)

\* the end chosen for a non-final window starting at st
ChosenEnd(t, st, cs) ==
    LET bb == best_break(t, st, cs)
    IN  IF bb > st THEN bb ELSE st + cs

\* variant: an overlap equal to chunk_size is let through
ParamsValid_AllowsEqualOverlap(cs, ov) == cs > 0 /\ ov >= 0 /\ ov <= cs

ParamsValid(cs, ov) == cs > 0 /\ ov >= 0 /\ ov < cs

\* variant: the text is not stripped before its length is tested
SplitEnter_NoStrip ==
    /\ pcS = "call"
    /\ IF ~ParamsValid(chunk_size, chunk_overlap)
       THEN /\ pcS' = "raised"
            /\ UNCHANGED <<text, chunks>>
       ELSE /\ text' = raw
            /\ chunks' = IF Len(text') = 0 THEN <<>>
                         ELSE IF Len(text') <= chunk_size THEN <<text'>> ELSE <<>>
            /\ pcS' = IF Len(text') <= chunk_size THEN "returned" ELSE "loop"
    /\ UNCHANGED <<raw, chunk_size, chunk_overlap, start, windows>>
    /\ UNCHANGED notSplit

\* entry of split_text: validation, strip, the two early returns
SplitEnter ==
    /\ pcS = "call"
    /\ IF ~ParamsValid(chunk_size, chunk_overlap)
       THEN /\ pcS' = "raised"
            /\ UNCHANGED <<text, chunks>>
       ELSE /\ text' = Strip(raw)
            /\ chunks' = IF Len(text') = 0 THEN <<>>
                         ELSE IF Len(text') <= chunk_size THEN <<text'>> ELSE <<>>
            /\ pcS' = IF Len(text') <= chunk_size THEN "returned" ELSE "loop"
    /\ UNCHANGED <<raw, chunk_size, chunk_overlap, start, windows>>
    /\ UNCHANGED notSplit

Record(ws, w) == IF Len(ws) < MaxWindows THEN Append(ws, w) ELSE ws

\* variant: the next window starts at the end of the current one (no overlap)
SplitStep_NoOverlap ==
    /\ pcS = "loop"
    /\ IF start >= Len(text)
       THEN /\ pcS' = "returned"
            /\ UNCHANGED <<start, windows, chunks>>
       ELSE IF start + chunk_size >= Len(text)
       THEN /\ chunks' = Record(chunks, Strip(PySliceFrom(text, start)))
            /\ windows' = Record(windows, [s |-> start, e |-> Len(text), final |-> TRUE])
            /\ pcS' = "returned"
            /\ UNCHANGED start
       ELSE LET end == ChosenEnd(text, start, chunk_size)
                chunk == Strip(PySlice(text, start, end))
            IN  /\ chunks' = IF chunk # <<>> THEN Record(chunks, chunk) ELSE chunks
                /\ windows' = Record(windows, [s |-> start, e |-> end, final |-> FALSE])
                /\ start' = end
                /\ pcS' = "loop"
    /\ UNCHANGED <<raw, text, chunk_size, chunk_overlap>>
    /\ UNCHANGED notSplit

\* one evaluation of the while condition and, when it holds, one loop body
SplitStep ==
    /\ pcS = "loop"
    /\ IF start >= Len(text)
       THEN /\ pcS' = "returned"
            /\ UNCHANGED <<start, windows, chunks>>
       ELSE IF start + chunk_size >= Len(text)
       THEN /\ chunks' = Record(chunks, Strip(PySliceFrom(text, start)))
            /\ windows' = Record(windows, [s |-> start, e |-> Len(text), final |-> TRUE])
            /\ pcS' = "returned"
            /\ UNCHANGED start
       ELSE LET end == ChosenEnd(text, start, chunk_size)
                chunk == Strip(PySlice(text, start, end))
            IN  /\ chunks' = IF chunk # <<>> THEN Record(chunks, chunk) ELSE chunks
                /\ windows' = Record(windows, [s |-> start, e |-> end, final |-> FALSE])
                /\ start' = end - chunk_overlap
                /\ pcS' = "loop"
    /\ UNCHANGED <<raw, text, chunk_size, chunk_overlap>>
    /\ UNCHANGED notSplit

\* split_text as one call: the walk of SplitStep from start 0 to its end;
\* seen holds the starts already walked, a repeated start never returns
RECURSIVE SplitWalk(_, _, _, _, _, _)
SplitWalk(t, st, cs, ov, acc, seen) ==
    IF st >= Len(t) THEN [outcome |-> "returned", chunks |-> acc]
    ELSE IF st + cs >= Len(t)
    THEN [outcome |-> "returned", chunks |-> Append(acc, Strip(PySliceFrom(t, st)))]
    ELSE IF st \in seen THEN [outcome |-> "diverges", chunks |-> acc]
    ELSE LET end == ChosenEnd(t, st, cs)
             chunk == Strip(PySlice(t, st, end))
         IN  SplitWalk(t, end - ov, cs, ov,
                       IF chunk # <<>> THEN Append(acc, chunk) ELSE acc, seen \cup {st})

split_text(t, cs, ov) ==
    IF ~ParamsValid(cs, ov) THEN [outcome |-> "raised", chunks |-> <<>>]
    ELSE LET stripped == Strip(t)
         IN  IF Len(stripped) = 0 THEN [outcome |-> "returned", chunks |-> <<>>]
             ELSE IF Len(stripped) <= cs THEN [outcome |-> "returned", chunks |-> <<stripped>>]
             ELSE SplitWalk(stripped, 0, cs, ov, <<>>, {})

InitSplit ==
    /\ raw \in Texts
    /\ chunk_size \in 0..MaxChunk
    /\ chunk_overlap \in -1..MaxChunk
    /\ text = <<>>
    /\ start = 0
    /\ windows = <<>>
    /\ chunks = <<>>
    /\ pcS = "call"

\* the texts with few characters other than plain ones
SparseTexts ==
    {t \in Texts : Cardinality({i \in 1..Len(t) : t[i] # "a"}) <= MaxSpecial}

InitChunks ==
    /\ raw \in SparseTexts
    /\ chunk_size \in 0..MaxChunk
    /\ chunk_overlap \in -1..MaxChunk
    /\ text = <<>>
    /\ start = 0
    /\ windows = <<>>
    /\ chunks = <<>>
    /\ pcS = "call"

\* split_text is not running
SplitIdle ==
    /\ raw = <<>>
    /\ chunk_size = 1
    /\ chunk_overlap = 0
    /\ text = <<>>
    /\ start = 0
    /\ windows = <<>>
    /\ chunks = <<>>
    /\ pcS = "idle"

(* --------------------------- knowledge store -------------------------- *)
BATCH_SIZE_Double == 2 * 10

BATCH_SIZE == 10

\* collection.get of list_knowledge asks for limit * 10 chunks
LIST_FETCH_FACTOR == 10

\* a text of n ordinary characters
Plain(n) == [i \in 1..n |-> "a"]

\* contents handed to add_knowledge and the knowledge.chunking settings
StoreContents == { <<"SP">>, <<"a">>, <<"a", "a", "a">>, <<"a", "NL", "a", "a">> }
StoreConfigs == { <<2, 0>>, <<3, 2>>, <<0, 0>> }

\* a content split into more chunks than two batches hold, next to a short one
LongContents == { <<"a">>, Plain(2 * BATCH_SIZE + 1) }
LongConfig == <<1, 0>>

ShortContents == { <<"a", "a", "a">> }
ShortConfigs == { <<2, 0>>, <<0, 0>> }

ItemIds == 1..MaxItems

\* the limit and tag_filter arguments of list_knowledge ("" is no filter)
ListLimits == 1..MaxItems
ListFilters == {"", "x"}

\* an id add_knowledge never handed out
UnknownId == 0

\* the callers of add_knowledge and the suffix of the file each one attaches
\* (import_pptx and import_docx do as import_pdf does, with their own suffix)
Vias == {"add", "import_pdf", "import_webpage"}
SuffixesOf(via) ==
    CASE via = "import_pdf" -> {".pdf", ".PDF"}
      [] via = "import_webpage" -> {".html"}
      [] OTHER -> {}

\* title, tags, source as a caller passes them: "" and <<>> stand for a
\* missing field, tags are kept as the list of their names
FullMeta == [title |-> "t", tags |-> <<"x">>, source |-> "s"]
MetaInputs ==
    { FullMeta,
      [title |-> "", tags |-> <<"x">>, source |-> "s"],
      [title |-> "", tags |-> <<>>, source |-> ""] }

DEFAULT_TITLE == "unnamed"
DEFAULT_SOURCE == "user_notes"

\* what generate_metadata does: fail before the request (configuration), fail
\* in the request, return the generated fields, or return the defaults when
\* the reply is not JSON
AiOutcomes == {"config_failed", "raised", "generated", "unparsed"}
GeneratedMeta(ai) ==
    IF ai = "generated"
    THEN [title |-> "ai_title", tags |-> <<"ai">>, source |-> "ai_source"]
    ELSE [title |-> DEFAULT_TITLE, tags |-> <<>>, source |-> DEFAULT_SOURCE]

\* variant: after a failed generation every field takes its default
ResolveMeta_DefaultsAll(m, ai) ==
    IF m.title # "" /\ m.tags # <<>> /\ m.source # "" THEN m
    ELSE IF ai \in {"config_failed", "raised"}
    THEN [title |-> DEFAULT_TITLE, tags |-> <<>>, source |-> DEFAULT_SOURCE]
    ELSE [title |-> IF m.title = "" THEN GeneratedMeta(ai).title ELSE m.title,
          tags |-> IF m.tags = <<>> THEN GeneratedMeta(ai).tags ELSE m.tags,
          source |-> IF m.source = "" THEN GeneratedMeta(ai).source ELSE m.source]

MetaMissing(m) == m.title = "" \/ m.tags = <<>> \/ m.source = ""

\* title, tags, source after the metadata step of add_knowledge
ResolveMeta(m, ai) ==
    IF ~MetaMissing(m) THEN m
    ELSE IF ai \in {"config_failed", "raised"}
    THEN [title |-> IF m.title = "" THEN DEFAULT_TITLE ELSE m.title,
          tags |-> m.tags,
          source |-> IF m.source = "" THEN DEFAULT_SOURCE ELSE m.source]
    ELSE [title |-> IF m.title = "" THEN GeneratedMeta(ai).title ELSE m.title,
          tags |-> IF m.tags = <<>> THEN GeneratedMeta(ai).tags ELSE m.tags,
          source |-> IF m.source = "" THEN GeneratedMeta(ai).source ELSE m.source]

\* the external calls of the metadata step, in order
MetaCalls(m, ai) ==
    IF MetaMissing(m) /\ ai # "config_failed" THEN <<"completion">> ELSE <<>>

\* the inputs of one run: the settings, the file system, and the contents,
\* callers and metadata the calls of the run draw from
Scenarios ==
    {[cfg |-> <<2, 0>>, fs |-> f, contents |-> StoreContents, vias |-> Vias,
      metas |-> {FullMeta}, items |-> MaxItems] : f \in BOOLEAN}
    \cup {[cfg |-> c, fs |-> TRUE, contents |-> StoreContents, vias |-> {"add"},
           metas |-> {FullMeta}, items |-> MaxItems] : c \in StoreConfigs \ {<<2, 0>>}}
    \cup {[cfg |-> c, fs |-> TRUE, contents |-> ShortContents, vias |-> {"add"},
           metas |-> MetaInputs, items |-> MaxItems] : c \in ShortConfigs}

\* a second item, told from the first by its title and tag
OtherMeta == [title |-> "u", tags |-> <<"y">>, source |-> "s"]

\* the runs in which the index is also read
ReadScenarios ==
    {[cfg |-> <<2, 0>>, fs |-> TRUE, contents |-> { <<"a">> },
      vias |-> {"import_webpage"}, metas |-> {OtherMeta},
      items |-> MaxItems]}

\* the runs in which the index is searched
SearchScenarios ==
    {[cfg |-> <<2, 0>>, fs |-> TRUE, contents |-> { <<"a", "a", "a">> },
      vias |-> {"add"}, metas |-> {FullMeta, OtherMeta}, items |-> MaxLongItems + 1]}

\* the runs with contents of several batches
LongScenarios ==
    {[cfg |-> LongConfig, fs |-> TRUE, contents |-> LongContents,
      vias |-> {"add"}, metas |-> {FullMeta}, items |-> MaxItems],
     [cfg |-> LongConfig, fs |-> TRUE, contents |-> LongContents,
      vias |-> {"add"}, metas |-> MetaInputs, items |-> MaxLongItems]}

\* the runs in which items of several batches are also updated
UpdateScenarios ==
    {[cfg |-> LongConfig, fs |-> TRUE, contents |-> LongContents,
      vias |-> {"add"}, metas |-> {FullMeta}, items |-> MaxLongItems]}

Lower(ext) == IF ext = ".PDF" THEN ".pdf" ELSE ext

\* Path(dir / name).exists() for name = base_id + probe on this file system
AttachmentsAt(id, probe) ==
    {f \in attachments :
        /\ f[1] = id
        /\ \/ f[2] = probe
           \/ ~fsCaseSensitive /\ Lower(f[2]) = Lower(probe)}

DeleteExts == {".pdf", ".html", ".docx", ".pptx"}

\* the attachments left by _delete_attachment(id)
AfterDeleteAttachment(id) ==
    attachments \ UNION {AttachmentsAt(id, ext) : ext \in DeleteExts}

\* the raw files left by _delete_raw_markdown(id)
AfterDeleteRaw(id) == rawFiles \ {id}

\* the index keeps its chunks in the order they were added
ChunksOf(id) == {index[k] : k \in {j \in 1..Len(index) : index[j].base_id = id}}

\* variant: the chunks are selected by the title of the item
WithoutChunksOf_SameTitle(id) ==
    SelectSeq(index, LAMBDA c : \A d \in ChunksOf(id) : c.title # d.title)

WithoutChunksOf(id) == SelectSeq(index, LAMBDA c : c.base_id # id)

NewChunks_TotalPerBatch(id, chs, meta, first, last) ==
    [k \in 1..(last - first) |->
        [base_id |-> id, chunk_index |-> first + k - 1,
         total_chunks |-> last - first, document |-> chs[first + k],
         title |-> meta.title, tags |-> meta.tags, source |-> meta.source]]

\* ids[first:last], documents[first:last], metadatas[first:last]
NewChunks(id, chs, meta, first, last) ==
    [k \in 1..(last - first) |->
        [base_id |-> id, chunk_index |-> first + k - 1,
         total_chunks |-> Len(chs), document |-> chs[first + k],
         title |-> meta.title, tags |-> meta.tags, source |-> meta.source]]

\* add_knowledge up to the first index write: the metadata step,
\* get_collection, split_text, the new base_id and _save_raw_markdown
AddStart ==
    /\ pcAdd = "idle"
    /\ nextId <= pool.items
    /\ \E content \in pool.contents, via \in pool.vias, m \in pool.metas,
          ai \in AiOutcomes, collectionOk \in BOOLEAN :
         LET split == split_text(content, cfgChunking[1], cfgChunking[2])
         IN  /\ addVia' = via
             /\ addContent' = content
             /\ addGiven' = m /\ addAi' = ai /\ addCollectionOk' = collectionOk
             /\ addMeta' = ResolveMeta(m, ai)
             \* generate_metadata is called only when a field is missing
             /\ MetaMissing(m) \/ ai = "generated"
             /\ IF ~collectionOk \/ split.outcome = "raised"
                THEN /\ pcAdd' = "raised"
                     /\ storeCalls' = MetaCalls(m, ai)
                     /\ UNCHANGED <<rawFiles, nextId, addId, addChunks>>
                ELSE IF split.outcome = "diverges"
                THEN /\ pcAdd' = "hung"
                     /\ storeCalls' = MetaCalls(m, ai)
                     /\ UNCHANGED <<rawFiles, nextId, addId, addChunks>>
                ELSE /\ pcAdd' = "indexing"
                     /\ storeCalls' = Append(MetaCalls(m, ai), "raw_write")
                     /\ addId' = nextId
                     /\ nextId' = nextId + 1
                     /\ rawFiles' = rawFiles \cup {nextId}
                     /\ addChunks' = split.chunks
    /\ addWritten' = 0
    /\ addBatches' = <<>>
    /\ addDisturbed' = FALSE
    /\ UNCHANGED <<index, attachments, fsCaseSensitive, cfgChunking, pool,
                   returnedIds, deletedIds, lastDelete>>
    /\ UNCHANGED notStore

UpdateStart_KeepsOldChunks ==
    /\ pcAdd = "idle"
    /\ \E id \in returnedIds, content \in pool.contents :
         LET split == split_text(content, cfgChunking[1], cfgChunking[2])
             old == CHOOSE c \in ChunksOf(id) : TRUE
         IN  /\ ChunksOf(id) # {}
             /\ split.outcome = "returned"
             /\ addId' = id
             /\ addContent' = content
             /\ addMeta' = [title |-> old.title, tags |-> old.tags, source |-> old.source]
             /\ storeCalls' = <<"raw_write">>
             /\ addChunks' = split.chunks
             /\ pcAdd' = "indexing"
    /\ addVia' = "update"
    /\ addWritten' = 0
    /\ addBatches' = <<>>
    /\ addDisturbed' = FALSE
    /\ UNCHANGED <<index, rawFiles, attachments, fsCaseSensitive, cfgChunking, pool,
                   nextId, returnedIds, deletedIds, lastDelete>>
    /\ addGiven' = FullMeta /\ addAi' = "generated" /\ addCollectionOk' = TRUE
    /\ UNCHANGED notStore

\* update_knowledge(id, content) up to the first index write: the chunks of
\* the item are deleted, then the add path runs under the same id with the
\* title, tags and source the item has
UpdateStart ==
    /\ pcAdd = "idle"
    /\ \E id \in returnedIds, content \in pool.contents, collectionOk \in BOOLEAN :
         LET split == split_text(content, cfgChunking[1], cfgChunking[2])
             old == CHOOSE c \in ChunksOf(id) : TRUE
         IN  /\ addId' = id
             /\ addContent' = content
             /\ IF ~collectionOk \/ ChunksOf(id) = {}
                THEN /\ pcAdd' = "raised"
                     /\ storeCalls' = <<>>
                     /\ UNCHANGED <<index, rawFiles, addMeta, addChunks>>
                ELSE /\ index' = WithoutChunksOf(id)
                     /\ addMeta' =
                           [title |-> old.title, tags |-> old.tags, source |-> old.source]
                     /\ IF split.outcome = "returned"
                        THEN /\ pcAdd' = "indexing"
                             /\ storeCalls' = <<"index_delete", "raw_write">>
                             /\ rawFiles' = rawFiles \cup {id}
                             /\ addChunks' = split.chunks
                        ELSE /\ pcAdd' = IF split.outcome = "raised" THEN "raised" ELSE "hung"
                             /\ storeCalls' = <<"index_delete">>
                             /\ UNCHANGED <<rawFiles, addChunks>>
    /\ addVia' = "update"
    /\ addWritten' = 0
    /\ addBatches' = <<>>
    /\ addDisturbed' = FALSE
    /\ UNCHANGED <<attachments, fsCaseSensitive, cfgChunking, pool, nextId,
                   returnedIds, deletedIds, lastDelete>>
    /\ addGiven' = FullMeta /\ addAi' = "generated" /\ addCollectionOk' = TRUE
    /\ UNCHANGED notStore

AddBatch_RollsBack ==
    /\ pcAdd = "indexing"
    /\ addWritten < Len(addChunks)
    /\ \E ok \in BOOLEAN :
         LET batch_start == addWritten
             batch_end == Min(batch_start + BATCH_SIZE, Len(addChunks))
         IN  /\ storeCalls' = Append(storeCalls, "index_write")
             /\ addBatches' = Append(addBatches, [first |-> batch_start, last |-> batch_end])
             /\ IF ok
                THEN /\ index' = index \o
                           NewChunks(addId, addChunks, addMeta, batch_start, batch_end)
                     /\ addWritten' = batch_end
                     /\ pcAdd' = "indexing"
                ELSE /\ pcAdd' = "raised"
                     /\ index' = WithoutChunksOf(addId)
                     /\ UNCHANGED addWritten
    /\ UNCHANGED <<rawFiles, attachments, fsCaseSensitive, cfgChunking, pool, nextId,
                   addVia, addId, addContent, addChunks, addMeta, addDisturbed,
                   returnedIds, deletedIds, lastDelete>>
    /\ UNCHANGED addInputs
    /\ UNCHANGED notStore

\* one collection.add of the batch loop
AddBatch ==
    /\ pcAdd = "indexing"
    /\ addWritten < Len(addChunks)
    /\ \E ok \in BOOLEAN :
         LET batch_start == addWritten
             batch_end == Min(batch_start + BATCH_SIZE, Len(addChunks))
         IN  /\ storeCalls' = Append(storeCalls, "index_write")
             /\ addBatches' = Append(addBatches, [first |-> batch_start, last |-> batch_end])
             /\ IF ok
                THEN /\ index' = index \o
                           NewChunks(addId, addChunks, addMeta, batch_start, batch_end)
                     /\ addWritten' = batch_end
                     /\ pcAdd' = "indexing"
                ELSE /\ pcAdd' = "raised"
                     /\ UNCHANGED <<index, addWritten>>
    /\ UNCHANGED <<rawFiles, attachments, fsCaseSensitive, cfgChunking, pool, nextId,
                   addVia, addId, addContent, addChunks, addMeta, addDisturbed,
                   returnedIds, deletedIds, lastDelete>>
    /\ UNCHANGED addInputs
    /\ UNCHANGED notStore

\* the batch loop is over: add_knowledge (update_knowledge) returns its result
AddReturn ==
    /\ pcAdd = "indexing"
    /\ addWritten >= Len(addChunks)
    /\ IF addVia \in {"add", "update"}
       THEN /\ pcAdd' = "idle"
            /\ returnedIds' = returnedIds \cup {addId}
            /\ addVia' = "add"
            /\ addId' = 0
       ELSE /\ pcAdd' = "attach"
            /\ UNCHANGED <<returnedIds, addVia, addId>>
    /\ addContent' = <<>>
    /\ addChunks' = <<>>
    /\ addWritten' = 0
    /\ addMeta' = FullMeta
    /\ storeCalls' = <<>>
    /\ addBatches' = <<>>
    /\ addDisturbed' = FALSE
    /\ UNCHANGED <<index, rawFiles, attachments, fsCaseSensitive, cfgChunking, pool,
                   nextId, deletedIds, lastDelete>>
    /\ addGiven' = FullMeta /\ addAi' = "generated" /\ addCollectionOk' = TRUE
    /\ UNCHANGED notStore

\* the import tool calls _save_attachment with the id add_knowledge returned
\* and returns; the copy keeps the suffix of the source file and may fail
ImportAttach ==
    /\ pcAdd = "attach"
    /\ \E ext \in SuffixesOf(addVia), saved \in BOOLEAN :
         attachments' = IF saved THEN attachments \cup {<<addId, ext>>} ELSE attachments
    /\ returnedIds' = returnedIds \cup {addId}
    /\ pcAdd' = "idle"
    /\ addVia' = "add"
    /\ addId' = 0
    /\ UNCHANGED <<index, rawFiles, fsCaseSensitive, cfgChunking, pool, nextId,
                   addContent, addChunks, addWritten, addMeta, storeCalls, addBatches,
                   addDisturbed,
                   deletedIds, lastDelete>>
    /\ UNCHANGED addInputs
    /\ UNCHANGED notStore

\* a failed or hung add_knowledge is over for its caller; the next call may start
AddAbandon ==
    /\ pcAdd \in {"raised", "hung"}
    /\ pcAdd' = "idle"
    /\ addVia' = "add"
    /\ addId' = 0
    /\ addContent' = <<>>
    /\ addChunks' = <<>>
    /\ addWritten' = 0
    /\ addMeta' = FullMeta
    /\ storeCalls' = <<>>
    /\ addBatches' = <<>>
    /\ addDisturbed' = FALSE
    /\ UNCHANGED <<index, rawFiles, attachments, fsCaseSensitive, cfgChunking, pool,
                   nextId, returnedIds, deletedIds, lastDelete>>
    /\ addGiven' = FullMeta /\ addAi' = "generated" /\ addCollectionOk' = TRUE
    /\ UNCHANGED notStore

DeleteKnowledge_NotFoundRaises ==
    /\ \E id \in returnedIds \cup {UnknownId} :
         IF ChunksOf(id) = {}
         THEN /\ lastDelete' = [id |-> id, result |-> "raised", index_ok |-> TRUE]
              /\ UNCHANGED <<index, rawFiles, attachments, deletedIds>>
         ELSE /\ index' = WithoutChunksOf(id)
              /\ rawFiles' = AfterDeleteRaw(id)
              /\ attachments' = AfterDeleteAttachment(id)
              /\ lastDelete' = [id |-> id, result |-> "deleted", index_ok |-> TRUE]
              /\ deletedIds' = deletedIds \cup {id}
    /\ UNCHANGED <<fsCaseSensitive, cfgChunking, pool, nextId, pcAdd, addVia, addId,
                   addContent, addChunks, addWritten, addMeta, storeCalls, addBatches,
                   addDisturbed,
                   returnedIds>>
    /\ UNCHANGED addInputs
    /\ UNCHANGED notStore

\* delete_knowledge(id) for an id a caller received or an id never handed out
DeleteKnowledge ==
    /\ \E id \in returnedIds \cup {UnknownId}, indexOk \in BOOLEAN :
         IF ~indexOk
         THEN /\ lastDelete' = [id |-> id, result |-> "raised", index_ok |-> FALSE]
              /\ UNCHANGED <<index, rawFiles, attachments, deletedIds, addDisturbed>>
         ELSE IF ChunksOf(id) = {}
         THEN /\ lastDelete' = [id |-> id, result |-> "not_found", index_ok |-> TRUE]
              /\ deletedIds' = deletedIds \cup {id}
              /\ UNCHANGED <<index, rawFiles, attachments, addDisturbed>>
         ELSE /\ index' = WithoutChunksOf(id)
              /\ rawFiles' = AfterDeleteRaw(id)
              /\ attachments' = AfterDeleteAttachment(id)
              /\ lastDelete' = [id |-> id, result |-> "deleted", index_ok |-> TRUE]
              /\ deletedIds' = deletedIds \cup {id}
              /\ addDisturbed' = (addDisturbed \/ (pcAdd = "indexing" /\ id = addId))
    /\ UNCHANGED <<fsCaseSensitive, cfgChunking, pool, nextId, pcAdd, addVia, addId,
                   addContent, addChunks, addWritten, addMeta, storeCalls, addBatches, returnedIds>>
    /\ UNCHANGED addInputs
    /\ UNCHANGED notStore

\* the where clause {"tags": {"$contains": tag_filter}}, on the tag names
TagsContain(tags, tag_filter) == \E i \in 1..Len(tags) : tags[i] = tag_filter

\* the loop over the chunks collection.get returned, from chunk i on
RECURSIVE SeenFrom(_, _, _, _)
SeenFrom(got, i, seen, limit) ==
    IF i > Len(got) THEN seen
    ELSE LET bid == got[i].base_id
             fresh == \A k \in 1..Len(seen) : seen[k].id # bid
         IN  SeenFrom(got, i + 1,
                      IF fresh /\ Len(seen) < limit
                      THEN Append(seen, [id |-> bid, title |-> got[i].title,
                                         tags |-> got[i].tags, source |-> got[i].source,
                                         total_chunks |-> got[i].total_chunks])
                      ELSE seen,
                      limit)

\* list_knowledge after collection.count() answered total_count: the get
\* on the index idx and the loop over what it returned
ListFrom(idx, total_count, tag_filter, limit) ==
    LET get_limit == IF total_count > 0
                     THEN Min(limit * LIST_FETCH_FACTOR, total_count) ELSE limit
        matching == IF tag_filter = "" THEN idx
                    ELSE SelectSeq(idx, LAMBDA c : TagsContain(c.tags, tag_filter))
        got == SubSeq(matching, 1, Min(get_limit, Len(matching)))
        seen == SeenFrom(got, 1, <<>>, limit)
    IN  [total_items |-> Len(seen), total_chunks |-> total_count, items |-> seen]

\* list_knowledge(tag_filter, limit) on the index idx
list_knowledge(idx, tag_filter, limit) == ListFrom(idx, Len(idx), tag_filter, limit)

\* the store before the first call of a run drawn from the scenarios scs
InitStoreIn(scs) ==
    /\ index = <<>>
    /\ rawFiles = {}
    /\ attachments = {}
    /\ \E sc \in scs :
         /\ fsCaseSensitive = sc.fs
         /\ cfgChunking = sc.cfg
         /\ pool = [contents |-> sc.contents, vias |-> sc.vias, metas |-> sc.metas,
                     items |-> sc.items]
    /\ nextId = 1
    /\ pcAdd = "idle"
    /\ addVia = "add"
    /\ addId = 0
    /\ addContent = <<>>
    /\ addChunks = <<>>
    /\ addWritten = 0
    /\ addMeta = FullMeta
    /\ storeCalls = <<>>
    /\ addBatches = <<>>
    /\ addDisturbed = FALSE
    /\ returnedIds = {}
    /\ deletedIds = {}
    /\ lastDelete = [id |-> 0, result |-> "none", index_ok |-> TRUE]
    /\ addGiven = FullMeta /\ addAi = "generated" /\ addCollectionOk = TRUE

InitStore == InitStoreIn(Scenarios)

InitBatches == InitStoreIn(LongScenarios)

InitUpdate == InitStoreIn(UpdateScenarios)

\* the store is not in use
StoreIdle ==
    /\ index = <<>>
    /\ rawFiles = {}
    /\ attachments = {}
    /\ fsCaseSensitive = TRUE
    /\ cfgChunking = <<2, 0>>
    /\ pool = [contents |-> {}, vias |-> {}, metas |-> {}, items |-> 0]
    /\ nextId = 1
    /\ pcAdd = "off"
    /\ addVia = "add"
    /\ addId = 0
    /\ addContent = <<>>
    /\ addChunks = <<>>
    /\ addWritten = 0
    /\ addMeta = FullMeta
    /\ storeCalls = <<>>
    /\ addBatches = <<>>
    /\ addDisturbed = FALSE
    /\ returnedIds = {}
    /\ deletedIds = {}
    /\ lastDelete = [id |-> 0, result |-> "none", index_ok |-> TRUE]
    /\ addGiven = FullMeta /\ addAi = "generated" /\ addCollectionOk = TRUE

(* --------------- search_knowledge, list_knowledge, get_stats ---------- *)
\* distances are kept in units of 10^-5, relevances in units of 10^-4
UNIT == 100000
DEFAULT_TOP_K == 5

\* the distance the index reports for a chunk: fixed by the query and the
\* chunk (the embedding is a function of the two texts); the table has a
\* chunk just above the 0.6 relevance line, ties between items and a chunk
\* further than 1 from the query
DistanceOf(q, c) ==
    IF q = "q1" THEN 40004 + 60002 * c.chunk_index ELSE 12346 * c.base_id

\* round(x, 4) of x given in units of 10^-5 (ties to the even neighbour)
Round4(x) ==
    LET q == x \div 10
        r == x % 10
    IN  IF r > 5 \/ (r = 5 /\ q % 2 = 1) THEN q + 1 ELSE q

\* variant: n is not capped by the caller's top_k
SearchN_IgnoresTopK(top_k, cfg_top_k, count) == Min(cfg_top_k, Max(count, 1))

\* n = min(top_k, get_config("knowledge.retrieval.top_k", 5), max(count, 1))
SearchN(top_k, cfg_top_k, count) == Min(Min(top_k, cfg_top_k), Max(count, 1))

\* positions of idx the where clause lets through
Matching(idx, tag_filter) ==
    {p \in 1..Len(idx) : tag_filter = "" \/ TagsContain(idx[p].tags, tag_filter)}

\* collection.query: the n nearest of the candidates, nearest first
RECURSIVE Nearest(_, _, _, _)
Nearest(idx, cand, q, n) ==
    IF n <= 0 \/ cand = {} THEN <<>>
    ELSE LET p == CHOOSE c \in cand : \A d \in cand :
                      \/ DistanceOf(q, idx[c]) < DistanceOf(q, idx[d])
                      \/ DistanceOf(q, idx[c]) = DistanceOf(q, idx[d]) /\ c <= d
         IN  <<p>> \o Nearest(idx, cand \ {p}, q, n - 1)

\* the formatted list of search_knowledge
Formatted(idx, hits, q) ==
    [i \in 1..Len(hits) |->
        [id |-> <<idx[hits[i]].base_id, idx[hits[i]].chunk_index>>,
         dist |-> DistanceOf(q, idx[hits[i]]),
         relevance |-> Round4(UNIT - DistanceOf(q, idx[hits[i]]))]]

\* tag_counts and source_counts of get_stats, on the metadata of data
StatsOf(data, total) ==
    LET tags == UNION {{c.tags[i] : i \in 1..Len(c.tags)} : c \in {data[p] : p \in 1..Len(data)}}
        srcs == {data[p].source : p \in 1..Len(data)}
    IN  [total_items |-> Cardinality({data[p].base_id : p \in 1..Len(data)}),
         total_chunks |-> total,
         tags |-> [t \in tags |->
                     Cardinality({p \in 1..Len(data) : TagsContain(data[p].tags, t)})],
         sources |-> [x \in srcs |->
                        Cardinality({p \in 1..Len(data) : data[p].source = x})]]

\* the calls of search_knowledge made: top_k, the configured top_k, the tag
\* filter and the query
NoArgs == [top_k |-> 0, cfg_top_k |-> 0, tag_filter |-> "", query |-> "", limit |-> 0]
SearchArgs ==
    {[NoArgs EXCEPT !.top_k = 1, !.cfg_top_k = DEFAULT_TOP_K, !.query = "q1"],
     [NoArgs EXCEPT !.top_k = MaxItems, !.cfg_top_k = DEFAULT_TOP_K, !.tag_filter = "y",
                    !.query = "q2"],
     [NoArgs EXCEPT !.top_k = MaxItems, !.cfg_top_k = 1, !.query = "q1"],
     [NoArgs EXCEPT !.top_k = MaxItems, !.cfg_top_k = DEFAULT_TOP_K, !.query = "q1"]}
SearchCalls == {[op |-> "search", args |-> a] : a \in SearchArgs}

\* one call of each read
MixedCalls ==
    {[op |-> "search",
      args |-> [NoArgs EXCEPT !.top_k = MaxItems, !.cfg_top_k = DEFAULT_TOP_K, !.query = "q1"]],
     [op |-> "list", args |-> [NoArgs EXCEPT !.tag_filter = "y", !.limit = MaxItems]],
     [op |-> "stats", args |-> NoArgs]}

NoRead ==
    [op |-> "", args |-> NoArgs, outcome |-> "none", index_ok |-> TRUE,
     queried |-> FALSE, size_seen |-> 0, size_checked |-> 0, size_read |-> 0,
     items |-> <<>>]
\* size_seen and size_checked are the answers of the first and the second
\* collection.count(), size_read is the size of the index when it was read
ReadResult(op, args, outcome, index_ok, queried, sizes, items) ==
    [op |-> op, args |-> args, outcome |-> outcome, index_ok |-> index_ok,
     queried |-> queried, size_seen |-> sizes[1], size_checked |-> sizes[2],
     size_read |-> sizes[3], items |-> items]

\* a read begins: get_collection and the first collection.count()
ReadStart ==
    /\ pcRead = "idle"
    /\ \E call \in readPool, indexOk \in BOOLEAN :
         LET op == call.op
             args == call.args
         IN
           IF ~indexOk
           THEN /\ lastRead' = ReadResult(op, args, "raised", FALSE, FALSE, <<0, 0, 0>>, <<>>)
                /\ UNCHANGED <<pcRead, readOp, readArgs, readN, readRecount>>
           ELSE /\ pcRead' = "counted"
                /\ readOp' = op
                /\ readArgs' = args
                /\ readN' = Len(index)
                /\ readRecount' = Len(index)
                /\ lastRead' = NoRead
    /\ UNCHANGED readPool
    /\ UNCHANGED notRead

\* search_knowledge: if collection.count() == 0, the second count
SearchRecount ==
    /\ pcRead = "counted" /\ readOp = "search"
    /\ IF Len(index) = 0
       THEN /\ lastRead' = ReadResult("search", readArgs, "returned", TRUE, FALSE,
                                      <<readN, 0, 0>>, <<>>)
            /\ pcRead' = "idle"
            /\ readOp' = "" /\ readArgs' = NoArgs /\ readN' = 0 /\ readRecount' = 0
       ELSE /\ pcRead' = "recounted"
            /\ readRecount' = Len(index)
            /\ UNCHANGED <<readOp, readArgs, readN, lastRead>>
    /\ UNCHANGED readPool
    /\ UNCHANGED notRead

\* the collection.query of search, the collection.get of list and of stats,
\* on the index as it is by then, and the result handed to the caller
ReadFinish ==
    /\ \/ pcRead = "counted" /\ readOp \in {"list", "stats"}
       \/ pcRead = "recounted" /\ readOp = "search"
    /\ \E answered \in BOOLEAN :
         LET n == SearchN(readArgs.top_k, readArgs.cfg_top_k, readN)
             hits == Nearest(index, Matching(index, readArgs.tag_filter), readArgs.query, n)
             asked == readOp # "stats" \/ readN > 0
             items ==
                CASE readOp = "search" -> Formatted(index, hits, readArgs.query)
                  [] readOp = "list" ->
                       ListFrom(index, readN, readArgs.tag_filter, readArgs.limit).items
                  [] readOp = "stats" ->
                       <<StatsOf(IF readN > 0 THEN index ELSE <<>>, readN)>>
         IN  lastRead' =
                IF asked /\ ~answered
                THEN ReadResult(readOp, readArgs, "raised", FALSE, TRUE,
                                <<readN, readRecount, Len(index)>>, <<>>)
                ELSE ReadResult(readOp, readArgs, "returned", TRUE, asked,
                                <<readN, readRecount, Len(index)>>, items)
    /\ pcRead' = "idle"
    /\ readOp' = "" /\ readArgs' = NoArgs /\ readN' = 0 /\ readRecount' = 0
    /\ UNCHANGED readPool
    /\ UNCHANGED notRead

InitReadsIn(scs, made) ==
    /\ InitStoreIn(scs)
    /\ pcRead = "idle"
    /\ readOp = "" /\ readArgs = NoArgs /\ readN = 0 /\ readRecount = 0
    /\ lastRead = NoRead
    /\ readPool = made

InitReads == InitReadsIn(ReadScenarios, MixedCalls)

InitSearch == InitReadsIn(SearchScenarios, SearchCalls)

\* no read is made
ReadIdle ==
    /\ pcRead = "off"
    /\ readOp = "" /\ readArgs = NoArgs /\ readN = 0 /\ readRecount = 0
    /\ lastRead = NoRead
    /\ readPool = {}

(* ----------------------------- ask_knowledge -------------------------- *)
\* relevance is kept in hundredths (round(1 - dist, 4) of the index distance);
\* a string whose content does not matter is kept as its length
RelValues == {-20, 59, 60, 95}
ThresholdValues == {60, 95}
SnippetLens == {0, 5, 700}
SNIPPET_CUT == 600

\* the settings ask_knowledge reads with get_config
Configs ==
    [web_fallback_enabled : BOOLEAN, min_local_results : 0..2,
     ai_answer_enabled : BOOLEAN, allow_llm_knowledge : BOOLEAN,
     high_relevance_threshold : ThresholdValues]

\* dict.get(k, default)
Get(d, k, default) == IF k \in DOMAIN d THEN d[k] ELSE default

\* what search_knowledge returns in "results": the records of the index
\* query, nearest (most relevant) first
Ranked(rels) == \A i \in 1..(Len(rels) - 1) : rels[i] >= rels[i + 1]
ResultLists ==
    {[i \in 1..Len(rels) |-> [id |-> i, relevance |-> rels[i]]] :
        rels \in {r \in UNION {[1..n -> RelValues] : n \in 0..MaxResults} : Ranked(r)}}

HighTier(rs, thr) == SelectSeq(rs, LAMBDA r : Get(r, "relevance", 0) >= thr)

LowTier_Inclusive(rs, thr) == SelectSeq(rs, LAMBDA r : Get(r, "relevance", 0) <= thr)

LowTier(rs, thr) == SelectSeq(rs, LAMBDA r : Get(r, "relevance", 0) < thr)

ShouldFallback_IgnoresSwitch(c, high) == Len(high) < c.min_local_results

ShouldFallback(c, high) == c.web_fallback_enabled /\ Len(high) < c.min_local_results

\* what duckduckgo_search returns
WebItems == [title : {"t"}, url : {"u"}, snippet : SnippetLens]
WebItemLists == UNION {[1..n -> WebItems] : n \in 0..MaxWeb}

\* search_and_summarize(query, max_results, fetch_content=True), given the
\* list duckduckgo_search returned and whether fetch_webpage_content succeeded
search_and_summarize(search_results, fetched) ==
    IF search_results # <<>>
    THEN IF fetched
         THEN [search_results |-> search_results, top_content |-> "webpage"]
         ELSE [search_results |-> search_results, top_content |-> "None", error |-> "e"]
    ELSE [search_results |-> search_results]

\* the web_results_used built from the response of search_and_summarize
SnippetOf(item) == Min(Get(item, "content", Get(item, "snippet", 0)), SNIPPET_CUT)
WebEntries(web_resp) ==
    LET kept == SelectSeq(Get(web_resp, "results", <<>>), LAMBDA item : SnippetOf(item) > 0)
    IN  [j \in 1..Len(kept) |->
            [title |-> Get(kept[j], "title", "web"), relevance |-> 0,
             source |-> Get(kept[j], "url", ""), snippet |-> SnippetOf(kept[j]),
             from_web |-> TRUE]]

\* the context blocks and the sources, in the order the three loops append them
ContextParts(high, low, web) ==
    [i \in 1..Len(high) |-> [tier |-> "high", n |-> i]]
        \o [i \in 1..Len(low) |-> [tier |-> "low", n |-> i]]
        \o [j \in 1..Len(web) |-> [tier |-> "web", n |-> j]]

Sources_LowFirst(high, low, web) ==
    [i \in 1..Len(low) |->
        [id |-> low[i].id, relevance |-> Get(low[i], "relevance", 0),
         quality |-> "low", snippet |-> 0, from_web |-> FALSE]]
    \o [i \in 1..Len(high) |->
        [id |-> high[i].id, relevance |-> Get(high[i], "relevance", 0),
         quality |-> "high", snippet |-> 0, from_web |-> FALSE]]
    \o [j \in 1..Len(web) |->
        [id |-> 0, relevance |-> web[j].relevance,
         quality |-> "web", snippet |-> web[j].snippet, from_web |-> TRUE]]

Sources(high, low, web) ==
    [i \in 1..Len(high) |->
        [id |-> high[i].id, relevance |-> Get(high[i], "relevance", 0),
         quality |-> "high", snippet |-> 0, from_web |-> FALSE]]
    \o [i \in 1..Len(low) |->
        [id |-> low[i].id, relevance |-> Get(low[i], "relevance", 0),
         quality |-> "low", snippet |-> 0, from_web |-> FALSE]]
    \o [j \in 1..Len(web) |->
        [id |-> 0, relevance |-> web[j].relevance,
         quality |-> "web", snippet |-> web[j].snippet, from_web |-> TRUE]]

QualityHint_WebFirst(high, web) ==
    IF high = <<>> /\ web = <<>> THEN "web_supplement"
    ELSE IF high = <<>> THEN "low_relevance_only"
    ELSE "none"

\* the quality_hint inserted into _PROMPT_WITH_KNOWLEDGE
QualityHint(high, web) ==
    IF high = <<>> /\ web = <<>> THEN "low_relevance_only"
    ELSE IF high = <<>> THEN "web_supplement"
    ELSE "none"

SkipsLlm_AnyFlag(has_context, c) == ~has_context

\* the call is answered without the language model
SkipsLlm(has_context, c) == ~has_context /\ ~c.ai_answer_enabled

AiKnowledgeUsed_NoFlag(has_context, c, high) ==
    ~has_context \/ Len(high) < c.min_local_results

AiKnowledgeUsed(has_context, c, high) ==
    ~has_context \/ (c.allow_llm_knowledge /\ Len(high) < c.min_local_results)

NoPrompt == [template |-> "none", quality_hint |-> "none", blocks |-> 0, profile |-> ""]
NoResponse == [status |-> "none"]
NoWeb == [status |-> "not_called"]

\* search_knowledge and the split of its results into the two tiers
AskRetrieve ==
    /\ pcA = "call"
    /\ calls' = Append(calls, "index_query")
    /\ \E searchOk \in BOOLEAN, rs \in ResultLists :
         IF searchOk
         THEN /\ results' = rs
              /\ high_quality' = HighTier(rs, cfg.high_relevance_threshold)
              /\ low_quality' = LowTier(rs, cfg.high_relevance_threshold)
              /\ pcA' = "retrieved"
              /\ UNCHANGED response
         ELSE /\ rs = <<>>
              /\ response' = [status |-> "raised", error |-> "search"]
              /\ pcA' = "failed"
              /\ UNCHANGED <<results, high_quality, low_quality>>
    /\ UNCHANGED <<cfg, web_outcome, web_results_used, context_parts, sources,
                   profile_outcome, profile_ctx, system_prompt>>
    /\ UNCHANGED notAsk

\* the web fallback: the test, the call of search_and_summarize inside try,
\* and the wrapping of its results
AskFallback ==
    /\ pcA = "retrieved"
    /\ IF ShouldFallback(cfg, high_quality)
       THEN /\ calls' = Append(calls, "web_search")
            /\ \E raised \in BOOLEAN, items \in WebItemLists, fetched \in BOOLEAN :
                 IF raised
                 THEN /\ items = <<>> /\ fetched
                      /\ web_outcome' = [status |-> "raised"]
                      /\ web_results_used' = <<>>
                 ELSE /\ (items = <<>> => fetched)
                      /\ web_outcome' = [status |-> "returned",
                                          resp |-> search_and_summarize(items, fetched)]
                      /\ web_results_used' = WebEntries(web_outcome'.resp)
       ELSE UNCHANGED <<calls, web_outcome, web_results_used>>
    /\ pcA' = "fallback_done"
    /\ UNCHANGED <<cfg, results, high_quality, low_quality, context_parts, sources,
                   profile_outcome, profile_ctx, system_prompt, response>>
    /\ UNCHANGED notAsk

AskAssemble_ProfileFatal ==
    /\ pcA = "fallback_done"
    /\ context_parts' = ContextParts(high_quality, low_quality, web_results_used)
    /\ sources' = Sources(high_quality, low_quality, web_results_used)
    /\ \E profile \in {"raised", "", "summary"} :
         /\ profile_outcome' = IF profile = "raised" THEN "raised" ELSE "returned"
         /\ profile_ctx' = IF profile = "raised" THEN "" ELSE profile
         /\ pcA' = IF profile = "raised" THEN "failed" ELSE "assembled"
         /\ response' = IF profile = "raised"
                        THEN [status |-> "raised", error |-> "profile"] ELSE response
    /\ UNCHANGED <<cfg, results, high_quality, low_quality, web_outcome,
                   web_results_used, system_prompt, calls>>
    /\ UNCHANGED notAsk

\* the context blocks, the sources and the user profile (inside try)
AskAssemble ==
    /\ pcA = "fallback_done"
    /\ context_parts' = ContextParts(high_quality, low_quality, web_results_used)
    /\ sources' = Sources(high_quality, low_quality, web_results_used)
    /\ \E profile \in {"raised", "", "summary"} :
         /\ profile_outcome' = IF profile = "raised" THEN "raised" ELSE "returned"
         /\ profile_ctx' = IF profile = "raised" THEN "" ELSE profile
    /\ pcA' = "assembled"
    /\ UNCHANGED <<cfg, results, high_quality, low_quality, web_outcome,
                   web_results_used, system_prompt, calls, response>>
    /\ UNCHANGED notAsk

\* the choice of the prompt, or the early return without the language model
AskSelect ==
    /\ pcA = "assembled"
    /\ LET has_context == context_parts # <<>>
       IN  IF has_context
           THEN /\ system_prompt' =
                     [template |-> "WITH_KNOWLEDGE",
                      quality_hint |-> QualityHint(high_quality, web_results_used),
                      blocks |-> Len(context_parts), profile |-> profile_ctx]
                /\ pcA' = "prompted"
                /\ UNCHANGED response
           ELSE IF SkipsLlm(has_context, cfg)
           THEN /\ response' =
                     [status |-> "returned", answer |-> "add_knowledge_first",
                      sources |-> <<>>, high_quality_chunks |-> 0,
                      context_chunks_used |-> 0, web_fallback_used |-> FALSE,
                      ai_knowledge_used |-> FALSE]
                /\ pcA' = "done"
                /\ UNCHANGED system_prompt
           ELSE /\ system_prompt' =
                     [template |-> "NO_CONTEXT", quality_hint |-> "none",
                      blocks |-> 0, profile |-> profile_ctx]
                /\ pcA' = "prompted"
                /\ UNCHANGED response
    /\ UNCHANGED <<cfg, results, high_quality, low_quality, web_outcome,
                   web_results_used, context_parts, sources, profile_outcome,
                   profile_ctx, calls>>
    /\ UNCHANGED notAsk

AskComplete_BeforeFallback ==
    /\ pcA \in {"retrieved", "prompted"}
    /\ \A i \in 1..Len(calls) : calls[i] # "completion"
    /\ calls' = Append(calls, "completion")
    /\ IF pcA = "retrieved"
       THEN UNCHANGED <<pcA, response>>
       ELSE /\ response' = [status |-> "raised", error |-> "completion"]
            /\ pcA' = "failed"
    /\ UNCHANGED <<cfg, results, high_quality, low_quality, web_outcome,
                   web_results_used, context_parts, sources, profile_outcome,
                   profile_ctx, system_prompt>>
    /\ UNCHANGED notAsk

\* chat_with_llm and the result dict
AskComplete ==
    /\ pcA = "prompted"
    /\ calls' = Append(calls, "completion")
    /\ \E llmOk \in BOOLEAN :
         IF llmOk
         THEN /\ response' =
                   [status |-> "returned", answer |-> "reply", sources |-> sources,
                    high_quality_chunks |-> Len(high_quality),
                    context_chunks_used |-> Len(high_quality) + Len(low_quality),
                    web_fallback_used |-> Len(web_results_used) > 0,
                    ai_knowledge_used |->
                        AiKnowledgeUsed(context_parts # <<>>, cfg, high_quality)]
              /\ pcA' = "done"
         ELSE /\ response' = [status |-> "raised", error |-> "completion"]
              /\ pcA' = "failed"
    /\ UNCHANGED <<cfg, results, high_quality, low_quality, web_outcome,
                   web_results_used, context_parts, sources, profile_outcome,
                   profile_ctx, system_prompt>>
    /\ UNCHANGED notAsk

InitAsk ==
    /\ pcA = "call"
    /\ cfg \in Configs
    /\ results = <<>>
    /\ high_quality = <<>>
    /\ low_quality = <<>>
    /\ web_outcome = NoWeb
    /\ web_results_used = <<>>
    /\ context_parts = <<>>
    /\ sources = <<>>
    /\ profile_outcome = "not_called"
    /\ profile_ctx = ""
    /\ system_prompt = NoPrompt
    /\ calls = <<>>
    /\ response = NoResponse

\* ask_knowledge is not running
AskIdle ==
    /\ pcA = "off"
    /\ cfg = [web_fallback_enabled |-> TRUE, min_local_results |-> 1,
              ai_answer_enabled |-> TRUE, allow_llm_knowledge |-> TRUE,
              high_relevance_threshold |-> 60]
    /\ results = <<>>
    /\ high_quality = <<>>
    /\ low_quality = <<>>
    /\ web_outcome = NoWeb
    /\ web_results_used = <<>>
    /\ context_parts = <<>>
    /\ sources = <<>>
    /\ profile_outcome = "not_called"
    /\ profile_ctx = ""
    /\ system_prompt = NoPrompt
    /\ calls = <<>>
    /\ response = NoResponse

(* -------------------- lazy singletons and _init_lock ------------------- *)
\* instances[k] is 0 for None, else the number of the instance stored in the
\* module global; built[k] counts the constructions of k that succeeded;
\* init_lock is 0 when free, else the thread holding it (threading.Lock, not
\* re-entrant); stack[t] is the call stack of thread t, innermost frame last;
\* ret[t] is what the call that last left the stack of t handed to its caller;
\* callsLeft is the number of calls the threads may still begin.
Threads == 1..MaxThreads
Singletons == {"embedding_fn", "client", "collection"}
EntryPoints == {"_get_embedding_function", "_get_client", "get_collection", "warm_up"}

GlobalOf(fn) ==
    CASE fn = "_get_embedding_function" -> "embedding_fn"
      [] fn = "_get_client" -> "client"
      [] fn = "get_collection" -> "collection"

Frame(fn, pc) == [fn |-> fn, pc |-> pc]
Top(t) == stack[t][Len(stack[t])]
Running(t, fn, pc) == stack[t] # <<>> /\ Top(t).fn = fn /\ Top(t).pc = pc

NoValue == [st |-> "none", fn |-> "", inst |-> 0]
Value(fn, i) == [st |-> "value", fn |-> fn, inst |-> i]
Raised(fn) == [st |-> "raised", fn |-> fn, inst |-> 0]

\* the innermost frame of t moves to pc
Goto(t, pc) ==
    stack' = [stack EXCEPT ![t] = [@ EXCEPT ![Len(@)] = Frame(@.fn, pc)]]

\* the innermost frame of t moves to pc and calls fn
GotoAndCall(t, pc, fn, first) ==
    stack' = [stack EXCEPT ![t] =
                 Append([@ EXCEPT ![Len(@)] = Frame(@.fn, pc)], Frame(fn, first))]

\* the innermost frame of t ends with result r
Leave(t, r) ==
    /\ stack' = [stack EXCEPT ![t] = SubSeq(@, 1, Len(@) - 1)]
    /\ ret' = [ret EXCEPT ![t] = r]

\* a thread with nothing running calls one of the four functions
InitCall ==
    \E t \in Threads : \E fn \in EntryPoints :
        /\ stack[t] = <<>>
        /\ callsLeft > 0
        /\ callsLeft' = callsLeft - 1
        /\ stack' = [stack EXCEPT ![t] = <<Frame(fn, IF fn = "warm_up" THEN "key" ELSE "check")>>]
        /\ ret' = [ret EXCEPT ![t] = NoValue]
        /\ UNCHANGED <<instances, built, init_lock>>
        /\ UNCHANGED notInit

\* the test outside the lock: if <global> is not None: return <global>
FastCheck ==
    \E t \in Threads : \E fn \in EntryPoints \ {"warm_up"} :
        /\ Running(t, fn, "check")
        /\ IF instances[GlobalOf(fn)] # 0
           THEN Leave(t, Value(fn, instances[GlobalOf(fn)]))
           ELSE Goto(t, "lock") /\ UNCHANGED ret
        /\ UNCHANGED <<instances, built, init_lock, callsLeft>>
        /\ UNCHANGED notInit

\* with _init_lock: the thread goes on only when the lock is free
AcquireLock ==
    \E t \in Threads : \E fn \in EntryPoints \ {"warm_up"} :
        /\ Running(t, fn, "lock")
        /\ init_lock = 0
        /\ init_lock' = t
        /\ Goto(t, "recheck")
        /\ UNCHANGED <<instances, built, ret, callsLeft>>
        /\ UNCHANGED notInit

\* variant: the test under the lock is left out
Recheck_Skipped ==
    \E t \in Threads : \E fn \in EntryPoints \ {"warm_up"} :
        /\ Running(t, fn, "recheck")
        /\ IF fn = "get_collection"
           THEN GotoAndCall(t, "after_ef", "_get_embedding_function", "check")
           ELSE Goto(t, "build")
        /\ UNCHANGED <<init_lock, ret>>
        /\ UNCHANGED <<instances, built, callsLeft>>
        /\ UNCHANGED notInit

\* the test under the lock; get_collection then calls _get_embedding_function
Recheck ==
    \E t \in Threads : \E fn \in EntryPoints \ {"warm_up"} :
        /\ Running(t, fn, "recheck")
        /\ IF instances[GlobalOf(fn)] # 0
           THEN /\ init_lock' = 0
                /\ Leave(t, Value(fn, instances[GlobalOf(fn)]))
           ELSE /\ IF fn = "get_collection"
                   THEN GotoAndCall(t, "after_ef", "_get_embedding_function", "check")
                   ELSE Goto(t, "build")
                /\ UNCHANGED <<init_lock, ret>>
        /\ UNCHANGED <<instances, built, callsLeft>>
        /\ UNCHANGED notInit

\* construction of the embedding function (the API key may be missing) or of
\* the client; an exception leaves the with block, which releases the lock
Build ==
    \E t \in Threads : \E fn \in {"_get_embedding_function", "_get_client"} :
      \E ok \in BOOLEAN :
        /\ Running(t, fn, "build")
        /\ init_lock' = 0
        /\ IF ok
           THEN /\ built' = [built EXCEPT ![GlobalOf(fn)] = @ + 1]
                /\ instances' = [instances EXCEPT ![GlobalOf(fn)] = built'[GlobalOf(fn)]]
                /\ Leave(t, Value(fn, instances'[GlobalOf(fn)]))
           ELSE /\ Leave(t, Raised(fn))
                /\ UNCHANGED <<instances, built>>
        /\ UNCHANGED callsLeft
        /\ UNCHANGED notInit

\* get_collection after ef = _get_embedding_function(): calls _get_client()
CollectionAfterEf ==
    \E t \in Threads :
        /\ Running(t, "get_collection", "after_ef")
        /\ IF ret[t].st = "raised"
           THEN /\ init_lock' = 0
                /\ Leave(t, Raised("get_collection"))
           ELSE /\ GotoAndCall(t, "after_client", "_get_client", "check")
                /\ UNCHANGED <<init_lock, ret>>
        /\ UNCHANGED <<instances, built, callsLeft>>
        /\ UNCHANGED notInit

\* get_or_create_collection, the assignment, and the count() of the log line
CollectionBuild ==
    \E t \in Threads : \E outcome \in {"ok", "create_raised", "count_raised"} :
        /\ Running(t, "get_collection", "after_client")
        /\ init_lock' = 0
        /\ IF ret[t].st = "raised" \/ outcome = "create_raised"
           THEN /\ Leave(t, Raised("get_collection"))
                /\ UNCHANGED <<instances, built>>
           ELSE /\ built' = [built EXCEPT !["collection"] = @ + 1]
                /\ instances' = [instances EXCEPT !["collection"] = built'["collection"]]
                /\ Leave(t, IF outcome = "ok"
                            THEN Value("get_collection", instances'["collection"])
                            ELSE Raised("get_collection"))
        /\ UNCHANGED callsLeft
        /\ UNCHANGED notInit

\* warm_up: the key, then the three getters in turn; any exception ends it
WarmUpStep ==
    \E t \in Threads : \E keyOk \in BOOLEAN :
        /\ stack[t] # <<>> /\ Top(t).fn = "warm_up"
        /\ LET pc == Top(t).pc
           IN  IF (pc = "key" /\ ~keyOk) \/ (pc # "key" /\ ret[t].st = "raised")
                  \/ pc = "after_collection"
               THEN Leave(t, NoValue)
               ELSE /\ CASE pc = "key" ->
                              GotoAndCall(t, "after_ef", "_get_embedding_function", "check")
                         [] pc = "after_ef" ->
                              GotoAndCall(t, "after_client", "_get_client", "check")
                         [] pc = "after_client" ->
                              GotoAndCall(t, "after_collection", "get_collection", "check")
                    /\ UNCHANGED ret
        /\ UNCHANGED <<instances, built, init_lock, callsLeft>>
        /\ UNCHANGED notInit

InitSingletons ==
    /\ instances = [k \in Singletons |-> 0]
    /\ built = [k \in Singletons |-> 0]
    /\ init_lock = 0
    /\ stack = [t \in Threads |-> <<>>]
    /\ ret = [t \in Threads |-> NoValue]
    /\ callsLeft = MaxCalls

\* no thread is in the getters
InitIdle ==
    /\ instances = [k \in Singletons |-> 0]
    /\ built = [k \in Singletons |-> 0]
    /\ init_lock = 0
    /\ stack = [t \in Threads |-> <<>>]
    /\ ret = [t \in Threads |-> NoValue]
    /\ callsLeft = 0

NextSplit == SplitEnter \/ SplitStep

NextStore ==
    AddStart \/ AddBatch \/ AddReturn \/ ImportAttach \/ AddAbandon \/ DeleteKnowledge

NextBatches == AddStart \/ AddBatch \/ AddReturn \/ AddAbandon \/ DeleteKnowledge

NextUpdate ==
    AddStart \/ UpdateStart \/ AddBatch \/ AddReturn \/ AddAbandon \/ DeleteKnowledge

NextAsk == AskRetrieve \/ AskFallback \/ AskAssemble \/ AskSelect \/ AskComplete

NextReads ==
    AddStart \/ AddBatch \/ AddReturn \/ ImportAttach \/ AddAbandon \/ DeleteKnowledge
    \/ ReadStart \/ SearchRecount \/ ReadFinish

NextSearch ==
    AddStart \/ AddBatch \/ AddReturn \/ AddAbandon \/ DeleteKnowledge
    \/ ReadStart \/ SearchRecount \/ ReadFinish

NextSingletons ==
    InitCall \/ FastCheck \/ AcquireLock \/ Recheck \/ Build \/ CollectionAfterEf
    \/ CollectionBuild \/ WarmUpStep

\* each function is run on its own, the state of the others at rest
SplitAlone == InitSplit /\ StoreIdle /\ AskIdle /\ InitIdle /\ ReadIdle
ChunksAlone == InitChunks /\ StoreIdle /\ AskIdle /\ InitIdle /\ ReadIdle
StoreAlone == InitStore /\ SplitIdle /\ AskIdle /\ InitIdle /\ ReadIdle
BatchesAlone == InitBatches /\ SplitIdle /\ AskIdle /\ InitIdle /\ ReadIdle
UpdateAlone == InitUpdate /\ SplitIdle /\ AskIdle /\ InitIdle /\ ReadIdle
AskAlone == InitAsk /\ SplitIdle /\ StoreIdle /\ InitIdle /\ ReadIdle
SingletonsAlone == InitSingletons /\ SplitIdle /\ StoreIdle /\ AskIdle /\ ReadIdle
ReadsAlone == InitReads /\ SplitIdle /\ AskIdle /\ InitIdle
SearchAlone == InitSearch /\ SplitIdle /\ AskIdle /\ InitIdle

SpecSplit == SplitAlone /\ [][NextSplit]_vars

SpecChunks == ChunksAlone /\ [][NextSplit]_vars

SpecStore == StoreAlone /\ [][NextStore]_vars

SpecBatches == BatchesAlone /\ [][NextBatches]_vars

SpecUpdate == UpdateAlone /\ [][NextUpdate]_vars

SpecAsk == AskAlone /\ [][NextAsk]_vars

SpecReads == ReadsAlone /\ [][NextReads]_vars

SpecSearch == SearchAlone /\ [][NextSearch]_vars

SpecSingletons == SingletonsAlone /\ [][NextSingletons]_vars

(* ------------------------- claims on split_text ----------------------- *)
InLoop == pcS = "loop"
Returned == pcS = "returned"
LongInput == ParamsValid(chunk_size, chunk_overlap) /\ Len(text) > chunk_size

\* C1: every loop iteration of split_text that continues the walk starts the
\* next window strictly to the right of the current one
\* (end - chunk_overlap > start), which is what makes the walk terminate.
C1_ForwardProgress == [][(InLoop /\ pcS' = "loop") => start' > start]_vars

\* the windows walked so far are chained: the first starts at 0 and each
\* later one starts chunk_overlap characters before the end of its predecessor
Chained ==
    /\ windows # <<>> => windows[1].s = 0
    /\ \A i \in 2..Len(windows) : windows[i].s = windows[i - 1].e - chunk_overlap

Covered ==
    /\ windows # <<>>
    /\ windows[Len(windows)].e = Len(text)
    /\ \A k \in 0..(Len(text) - 1) :
          \E i \in 1..Len(windows) : windows[i].s <= k /\ k < windows[i].e

\* the walk is not cycling: the window about to be walked does not start
\* where an earlier window started (the loop is deterministic in start, so a
\* repeated start means the end of the text is never reached)
NotCycling == \A i \in 1..Len(windows) : windows[i].s # start

\* C2: for a valid input longer than chunk_size the windows are chained
\* without a gap, the walk goes on to a last window that ends at the end of
\* the text, and then every character lies in some window.
C2_WindowsCoverText ==
    /\ Chained
    /\ InLoop => NotCycling
    /\ (Returned /\ LongInput) => Covered

\* ends (pos + len(marker)) of all marker occurrences lying wholly in [lo, hi)
MarkerEnds(t, lo, hi) ==
    {p + Len(break_chars[m]) : <<m, p>> \in
        {mp \in (1..Len(break_chars)) \X (0..Len(t)) :
            /\ lo <= mp[2]
            /\ mp[2] + Len(break_chars[mp[1]]) <= Min(hi, Len(t))
            /\ SubSeq(t, mp[2] + 1, mp[2] + Len(break_chars[mp[1]])) = break_chars[mp[1]]}}

SetMax(S) == CHOOSE x \in S : \A y \in S : y <= x

\* C3: the end of every non-final window is the furthest-right marker end
\* inside the second half of the window, whatever the marker's place in the
\* priority list, and the hard cut start + chunk_size exactly when the second
\* half holds no marker.
C3_RightmostMarkerWins ==
    \A i \in 1..Len(windows) :
        ~windows[i].final =>
            LET w == windows[i]
                ends == MarkerEnds(text, w.s + (chunk_size \div 2), w.s + chunk_size)
            IN  w.e = IF ends = {} THEN w.s + chunk_size ELSE SetMax(ends)

\* a text without whitespace and without any break marker
Unbroken(t) ==
    /\ \A i \in 1..Len(t) : t[i] \notin Whitespace
    /\ MarkerEnds(t, 0, Len(t)) = {}

CeilDiv(a, b) == (a + b - 1) \div b

\* the number of chunks the window-advance formula gives for length L
FormulaCount(L, cs, ov) == 1 + CeilDiv(L - cs, cs - ov)

\* the end-to-end case: a plain text 3.5 times as long as an even chunk_size
HalfAgainCounts ==
    \A cs \in {c \in 1..MaxChunk : c % 2 = 0} : \A ov \in 0..(cs - 1) :
        LET L == (7 * cs) \div 2
            r == split_text(Plain(L), cs, ov)
        IN  /\ r.outcome = "returned"
            /\ Len(r.chunks) = 1 + CeilDiv(L - cs, cs - ov)
            /\ 2 * (L - cs) = 5 * cs

\* C24: for an unbroken text longer than chunk_size, split_text returns
\* 1 + ceil((L - chunk_size) / (chunk_size - chunk_overlap)) chunks, each one
\* but the last exactly chunk_size characters long; in particular a text of
\* length 3.5 x chunk_size gives 1 + ceil(2.5 x chunk_size / (chunk_size -
\* chunk_overlap)) chunks.
C24_WindowAdvanceCount ==
    /\ HalfAgainCounts
    /\ (pcS # "call" /\ ParamsValid(chunk_size, chunk_overlap) /\ Len(raw) > chunk_size
        /\ Unbroken(raw)) =>
           /\ pcS \in {"loop", "returned"}
           /\ \A i \in 1..Len(chunks) :
                 (i < Len(chunks) \/ pcS = "loop") => Len(chunks[i]) = chunk_size
           /\ Returned => Len(chunks) = FormulaCount(Len(raw), chunk_size, chunk_overlap)
           /\ Len(chunks) <= FormulaCount(Len(raw), chunk_size, chunk_overlap)

C24_Witness ==
    /\ Returned /\ Unbroken(raw) /\ chunk_overlap > 0
    /\ Len(chunks) >= 2
    /\ Len(chunks[Len(chunks)]) < chunk_size
    /\ (Len(raw) - chunk_size) % (chunk_size - chunk_overlap) # 0

C26_InvalidParamsRaise ==
    /\ (chunk_size <= 0 \/ chunk_overlap < 0 \/ chunk_overlap >= chunk_size) =>
          /\ pcS \in {"call", "raised"}
          /\ chunks = <<>> /\ windows = <<>>
          /\ split_text(raw, chunk_size, chunk_overlap).outcome = "raised"
    /\ pcS = "raised" =>
          (chunk_size <= 0 \/ chunk_overlap < 0 \/ chunk_overlap >= chunk_size)

C26_Witness ==
    /\ pcS = "raised" /\ raw = <<>>
    /\ chunk_size > 0 /\ chunk_overlap = chunk_size

\* t without its leading and trailing whitespace: from the first to the last
\* character that is not whitespace
Trimmed(t) ==
    LET solid == {i \in 1..Len(t) : t[i] \notin Whitespace}
    IN  IF solid = {} THEN <<>>
        ELSE SubSeq(t, CHOOSE i \in solid : \A k \in solid : i <= k,
                       CHOOSE i \in solid : \A k \in solid : k <= i)

\* C27: for valid parameters split_text returns the empty sequence when the
\* trimmed text is empty, and one chunk equal to the trimmed text when the
\* trimmed text is not longer than chunk_size.
C27_ShortTextOneChunk ==
    (pcS # "call" /\ chunk_size > 0 /\ chunk_overlap >= 0 /\ chunk_overlap < chunk_size
     /\ Len(Trimmed(raw)) <= chunk_size) =>
        /\ Returned
        /\ chunks = IF Trimmed(raw) = <<>> THEN <<>> ELSE <<Trimmed(raw)>>

C27_Witness ==
    /\ Returned /\ Len(chunks) = 1 /\ Len(raw) > chunk_size
    /\ chunks[1] # raw /\ chunks[1] = Trimmed(raw)

(* ------------------------ claims on the store ------------------------- *)
\* C4: once delete_knowledge(id) has returned for an id handed out by
\* add_knowledge or an import tool, the index holds no chunk of id, the raw
\* content file of id is gone and no attachment of id remains.
C4_DeleteRemovesEverything ==
    \A id \in deletedIds :
        /\ ChunksOf(id) = {}
        /\ id \notin rawFiles
        /\ \A f \in attachments : f[1] # id

\* the entries of the index that carry id, in index order
EntriesOf(id) == SelectSeq(index, LAMBDA c : c.base_id = id)

\* the entries of id are the chunks chs[1..n] with ordinals 0..n-1, in order,
\* each recording total chunks and the title, tags and source of meta
HoldsChunks(id, chs, n, total, meta) ==
    /\ Len(EntriesOf(id)) = n
    /\ \A k \in 1..Len(EntriesOf(id)) :
          /\ EntriesOf(id)[k].chunk_index = k - 1
          /\ EntriesOf(id)[k].document = chs[k]
          /\ EntriesOf(id)[k].total_chunks = total
          /\ EntriesOf(id)[k].title = meta.title
          /\ EntriesOf(id)[k].tags = meta.tags
          /\ EntriesOf(id)[k].source = meta.source

\* the batch loop of the call in progress is over and the call returns
Returning == pcAdd = "indexing" /\ addWritten >= Len(addChunks)
UpdateReturning == Returning /\ addVia = "update"
AddReturning == Returning /\ addVia # "update"

\* C14: when update_knowledge(id, content) on an existing item returns, and
\* no delete of the same id ran while it was indexing, the index holds under
\* id exactly the chunks of the new content; whether or not a delete ran, no
\* chunk of the old content is left under id (never a mix of old and new).
C14_UpdateReplacesChunks ==
    UpdateReturning =>
        /\ \A c \in ChunksOf(addId) :
              /\ c.chunk_index \in 0..(Len(addChunks) - 1)
              /\ c.document = addChunks[c.chunk_index + 1]
              /\ c.total_chunks = Len(addChunks)
        /\ Len(EntriesOf(addId)) = Cardinality(ChunksOf(addId))
        /\ addChunks = split_text(addContent, cfgChunking[1], cfgChunking[2]).chunks
        /\ ~addDisturbed =>
              HoldsChunks(addId, addChunks, Len(addChunks), Len(addChunks), addMeta)

C14_Witness ==
    /\ UpdateReturning
    /\ ~addDisturbed
    /\ Len(addChunks) > 10
    /\ Len(EntriesOf(addId)) = Len(addChunks)

\* the ids of the items with a chunk matching the tag filter
MatchingIds(tag_filter) ==
    {index[k].base_id : k \in {j \in 1..Len(index) :
        tag_filter = "" \/ TagsContain(index[j].tags, tag_filter)}}

\* C15: list_knowledge(tag_filter, limit) returns one record per distinct
\* item id among the matching chunks, never two records with the same id, and
\* min(limit, number of distinct matching items) records, however many chunks
\* an item has.
C15_ListOnePerItem ==
    \A limit \in ListLimits, tag_filter \in ListFilters :
        LET items == list_knowledge(index, tag_filter, limit).items
        IN  /\ \A i, j \in 1..Len(items) : i # j => items[i].id # items[j].id
            /\ \A i \in 1..Len(items) : items[i].id \in MatchingIds(tag_filter)
            /\ Len(items) = Min(limit, Cardinality(MatchingIds(tag_filter)))

\* the last index write the call in progress issued did not go through
BatchFailed == addBatches # <<>> /\ addWritten < addBatches[Len(addBatches)].last
IndexWrites == Len(SelectSeq(storeCalls, LAMBDA c : c = "index_write"))

\* C16: when the index write of batch k fails, add_knowledge fails, batch k
\* is the last index write it issued, and the chunks of the batches before k
\* are still in the index (no rollback): the item is left partially indexed,
\* its raw file written and its id not returned.
C16_FailedBatchLeavesEarlierOnes ==
    BatchFailed =>
        LET k == Len(addBatches)
        IN  /\ pcAdd = "raised"
            /\ IndexWrites = k
            /\ storeCalls[Len(storeCalls)] = "index_write"
            /\ addWritten = addBatches[k].first
            /\ addWritten = (k - 1) * 10
            /\ addDisturbed \/
                  HoldsChunks(addId, addChunks, addWritten, Len(addChunks), addMeta)
            /\ addVia = "add" => (addId \in rawFiles /\ addId \notin returnedIds)

C16_Witness ==
    /\ BatchFailed
    /\ Len(addBatches) = 2
    /\ Len(EntriesOf(addId)) = 10
    /\ Len(addChunks) > 10

\* C17: the chunks of an item are written in consecutive batches of at most
\* 10 chunks in ordinal order, batch k+1 issued only after batch k returned,
\* and when the call returns the batches hold every chunk exactly once.
C17_SequentialBatches ==
    pcAdd \in {"indexing", "raised"} =>
        /\ \A k \in 1..Len(addBatches) :
              /\ addBatches[k].first = (IF k = 1 THEN 0 ELSE addBatches[k - 1].last)
              /\ addBatches[k].last - addBatches[k].first \in 1..10
              /\ addBatches[k].last <= Len(addChunks)
              /\ k < Len(addBatches) => addWritten >= addBatches[k].last
        /\ addWritten = (IF addBatches = <<>> THEN 0
                         ELSE IF pcAdd = "raised"
                         THEN addBatches[Len(addBatches)].first
                         ELSE addBatches[Len(addBatches)].last)
        /\ IndexWrites = Len(addBatches)
        /\ (Returning /\ addChunks # <<>>) =>
              addBatches[Len(addBatches)].last = Len(addChunks)
        /\ (Returning /\ ~addDisturbed) =>
              \A i \in 0..(Len(addChunks) - 1) :
                  Cardinality({j \in 1..Len(index) :
                      index[j].base_id = addId /\ index[j].chunk_index = i}) = 1

C17_Witness ==
    /\ Returning
    /\ Len(addBatches) = 3
    /\ addBatches[3].last - addBatches[3].first = 1

\* add_knowledge was rejected for its chunking parameters
RejectedForChunking ==
    /\ pcAdd = "raised"
    /\ addVia # "update"
    /\ ~ParamsValid(cfgChunking[1], cfgChunking[2])

\* C18: when the configured chunking parameters are invalid, add_knowledge is
\* rejected before any external call: no completion call for the metadata, no
\* write of the raw content and no index write.
C18_InvalidChunkingRejectedFirst ==
    RejectedForChunking =>
        \A i \in 1..Len(storeCalls) :
            storeCalls[i] \notin {"completion", "raw_write", "index_write"}

\* a step of delete_knowledge(lastDelete'.id): the only step that leaves both
\* the position of the add in progress and its log of calls as they are
DeleteStep == pcAdd' = pcAdd /\ storeCalls' = storeCalls

\* C19: delete_knowledge on an id without a chunk in the index, the index
\* answering, returns the "not found" message without raising and changes
\* nothing in the index, the raw files or the attachments; this is what a
\* second delete after a successful one does.
C19_DeleteUnknownIsNotFound ==
    [][(DeleteStep /\ ChunksOf(lastDelete'.id) = {} /\ lastDelete'.index_ok) =>
          /\ lastDelete'.result = "not_found"
          /\ index' = index
          /\ rawFiles' = rawFiles
          /\ attachments' = attachments]_vars

\* a delete of an id that was handed out, had chunks and was deleted before
C19_Witness ==
    /\ lastDelete.result = "not_found"
    /\ lastDelete.id \in returnedIds
    /\ lastDelete.id \notin rawFiles

\* C20: when add_knowledge returns, the index holds for the new id exactly
\* the chunks split_text produced, one entry per chunk id, with the ordinals
\* 0..chunkCount-1, each recording totalChunks = chunkCount and the same
\* title, tags and source.
C20_AddWritesAllChunks ==
    AddReturning =>
        /\ HoldsChunks(addId, addChunks, Len(addChunks), Len(addChunks), addMeta)
        /\ addChunks = split_text(addContent, cfgChunking[1], cfgChunking[2]).chunks
        /\ \A i, j \in 1..Len(index) :
              (index[i].base_id = addId /\ index[j].base_id = addId /\ i # j) =>
                  index[i].chunk_index # index[j].chunk_index

C20_Witness ==
    /\ AddReturning
    /\ Len(addChunks) > 10
    /\ Len(EntriesOf(addId)) = Len(addChunks)

(* ----------------------- claims on ask_knowledge ---------------------- *)
CountOf(log, what) == Cardinality({i \in 1..Len(log) : log[i] = what})
NHigh == Len(high_quality)
NLow == Len(low_quality)
NWeb == Len(web_results_used)
Completions == CountOf(calls, "completion")
WebCalls == CountOf(calls, "web_search")
Ended == pcA \in {"done", "failed"}
SearchFailed == pcA = "failed" /\ Get(response, "error", "none") = "search"
CompletionFailed == pcA = "failed" /\ Get(response, "error", "none") = "completion"
Answered == pcA = "done" /\ Get(response, "answer", "none") = "reply"
FixedAnswer == pcA = "done" /\ Get(response, "answer", "none") = "add_knowledge_first"
PastFallback == pcA \in {"fallback_done", "assembled", "prompted", "done"} \/ CompletionFailed
PastAssemble == pcA \in {"assembled", "prompted", "done"} \/ CompletionFailed
PastSelect == pcA \in {"prompted", "done"} \/ CompletionFailed

\* the results of the web search that carry a non-empty content or snippet
UsableWebItems ==
    IF web_outcome.status = "returned"
    THEN SelectSeq(web_outcome.resp.search_results,
                   LAMBDA item : Get(item, "content", Get(item, "snippet", 0)) > 0)
    ELSE <<>>

\* C5: when the fallback triggered and the web search returned results, every
\* result with a non-empty content or snippet is a context block and a source
\* of tier web with relevance 0 and from_web set, its snippet cut to the
\* bounded length, the answer reports web_fallback_used, and no web entry is
\* labelled high or low.
C5_WebResultsReachTheAnswer ==
    PastAssemble =>
        /\ \A k \in 1..Len(UsableWebItems) :
              /\ \E b \in 1..Len(context_parts) :
                    context_parts[b].tier = "web" /\ context_parts[b].n = k
              /\ \E i \in 1..Len(sources) :
                    /\ sources[i].quality = "web"
                    /\ sources[i].relevance = 0
                    /\ sources[i].from_web
                    /\ sources[i].snippet = Min(UsableWebItems[k].snippet, SNIPPET_CUT)
        /\ \A i \in 1..Len(sources) : sources[i].from_web => sources[i].quality = "web"
        /\ (Answered /\ UsableWebItems # <<>>) => response.web_fallback_used

StrategyOfCounts ==
    /\ NHigh > 0 =>
          system_prompt.template = "WITH_KNOWLEDGE" /\ system_prompt.quality_hint = "none"
    /\ (NHigh = 0 /\ NLow > 0 /\ NWeb = 0) =>
          /\ system_prompt.template = "WITH_KNOWLEDGE"
          /\ system_prompt.quality_hint = "low_relevance_only"
    /\ (NHigh = 0 /\ NWeb > 0) =>
          /\ system_prompt.template = "WITH_KNOWLEDGE"
          /\ system_prompt.quality_hint = "web_supplement"
    /\ (NHigh = 0 /\ NLow = 0 /\ NWeb = 0) => system_prompt.template = "NO_CONTEXT"

C8_FallbackIffEnabledAndShort ==
    /\ WebCalls <= 1
    /\ ~cfg.web_fallback_enabled => WebCalls = 0
    /\ PastFallback =>
          (WebCalls = 1 <=> (cfg.web_fallback_enabled /\ NHigh < cfg.min_local_results))
    /\ pcA \in {"call", "retrieved"} => WebCalls = 0

C8_Witness ==
    /\ pcA = "done"
    /\ WebCalls = 1
    /\ cfg.min_local_results = 2 /\ NHigh = 1

OccurrencesIn(seq, r) == Cardinality({j \in 1..Len(seq) : seq[j] = r})
InOrder(seq) == \A j, k \in 1..Len(seq) : j < k => seq[j].id < seq[k].id

\* C9: every retrieved result is in exactly one tier, the high tier iff its
\* relevance is at least the threshold, and each tier keeps retrieval order.
C9_TiersPartitionResults ==
    pcA # "call" =>
        /\ \A i \in 1..Len(results) :
              LET r == results[i]
              IN  IF r.relevance >= cfg.high_relevance_threshold
                  THEN OccurrencesIn(high_quality, r) = 1 /\ OccurrencesIn(low_quality, r) = 0
                  ELSE OccurrencesIn(high_quality, r) = 0 /\ OccurrencesIn(low_quality, r) = 1
        /\ NHigh + NLow = Len(results)
        /\ InOrder(high_quality) /\ InOrder(low_quality)

C9_Witness ==
    /\ pcA = "retrieved"
    /\ NHigh > 0 /\ NLow > 0
    /\ \E i \in 1..Len(results) : results[i].relevance = cfg.high_relevance_threshold

\* what a call that went through answer synthesis must have done
OnceUnlessSkipped ==
    IF context_parts = <<>> /\ ~cfg.ai_answer_enabled
    THEN /\ Completions = 0
         /\ FixedAnswer
         /\ response.sources = <<>>
    ELSE /\ Completions = 1
         /\ Answered \/ CompletionFailed

CallRank(c) ==
    CASE c = "index_query" -> 1
      [] c = "web_search" -> 2
      [] c = "completion" -> 3

\* C11: within one ask_knowledge call the external calls happen in the order
\* index query, then (if triggered) web search, then completion, each at most
\* once; the completion call is issued only after a triggered web fallback has
\* returned or raised, and nothing is called after the completion call.
C11_CallsInOrder ==
    /\ \A i, j \in 1..Len(calls) : i < j => CallRank(calls[i]) < CallRank(calls[j])
    /\ calls # <<>> => calls[1] = "index_query"
    /\ Completions > 0 =>
          /\ pcA \in {"done", "failed"}
          /\ calls[Len(calls)] = "completion"
          /\ ShouldFallback(cfg, high_quality) =>
                (WebCalls = 1 /\ web_outcome.status \in {"returned", "raised"})

C11_Witness ==
    /\ pcA = "done"
    /\ calls = <<"index_query", "web_search", "completion">>

WebRaised == web_outcome.status = "raised"
ProfileRaised == profile_outcome = "raised"

\* C12: when the web search raises during fallback, or the user-preference
\* lookup raises, ask_knowledge does not fail for it: the two local tiers stay
\* as retrieval left them, no web entry is used (respectively the preference
\* string is empty), the call goes on to answer synthesis, and it ends with an
\* answer unless the completion call itself fails.
C12_FallbackFailureNotFatal ==
    /\ WebRaised =>
          /\ web_results_used = <<>>
          /\ high_quality = HighTier(results, cfg.high_relevance_threshold)
          /\ low_quality = LowTier(results, cfg.high_relevance_threshold)
          /\ PastFallback
    /\ ProfileRaised =>
          /\ profile_ctx = ""
          /\ PastAssemble
          /\ PastSelect => (FixedAnswer \/ system_prompt.profile = "")
    /\ ((WebRaised \/ ProfileRaised) /\ Ended) =>
          /\ Answered \/ FixedAnswer \/ CompletionFailed
          /\ FixedAnswer <=> (context_parts = <<>> /\ ~cfg.ai_answer_enabled)
          /\ Answered => response.sources = sources

C12_Witness ==
    /\ Answered
    /\ WebRaised /\ ProfileRaised
    /\ NHigh > 0 /\ NLow > 0

TierRank(t) ==
    CASE t = "high" -> 1
      [] t = "low" -> 2
      [] t = "web" -> 3

\* the entries of a tier, as the context and the sources must list them
TierOf(t) ==
    CASE t = "high" -> high_quality
      [] t = "low" -> low_quality
      [] t = "web" -> web_results_used

\* C13: the context lists all high-tier blocks, then all low-tier blocks,
\* then all web-tier blocks, each group in retrieval order; the sources list
\* has one entry per context block, in the same order and with the same tier
\* label, so the number of sources is high + low + web.
C13_ContextAndSourcesAligned ==
    PastAssemble =>
        /\ Len(context_parts) = NHigh + NLow + NWeb
        /\ Len(sources) = Len(context_parts)
        /\ \A i \in 1..Len(context_parts) :
              /\ sources[i].quality = context_parts[i].tier
              /\ context_parts[i].n \in 1..Len(TierOf(context_parts[i].tier))
              /\ sources[i].from_web <=> context_parts[i].tier = "web"
              /\ context_parts[i].tier # "web" =>
                    /\ sources[i].id = TierOf(context_parts[i].tier)[context_parts[i].n].id
                    /\ sources[i].relevance =
                          TierOf(context_parts[i].tier)[context_parts[i].n].relevance
        /\ \A i, j \in 1..Len(context_parts) :
              i < j =>
                 \/ TierRank(context_parts[i].tier) < TierRank(context_parts[j].tier)
                 \/ /\ context_parts[i].tier = context_parts[j].tier
                    /\ context_parts[i].n < context_parts[j].n

C13_Witness ==
    /\ Answered
    /\ NHigh > 0 /\ NLow > 1
    /\ Len(response.sources) = NHigh + NLow


(* --------------------- claims on the metadata step -------------------- *)
AddRunning == pcAdd \in {"indexing", "attach", "raised", "hung"} /\ addVia # "update"
GenerationFailed ==
    /\ addGiven.title = "" \/ addGiven.tags = <<>> \/ addGiven.source = ""
    /\ addAi \in {"config_failed", "raised", "unparsed"}

\* C21: when a field is missing and the automatic generation fails, each
\* missing field takes its default ("unnamed" title, no tags, "user_notes"
\* source), each supplied field is kept, and the add goes on to chunking and
\* indexing: it stops before the first index write only when the index is
\* unreachable or the chunking itself fails.
C21_GenerationFailureUsesDefaults ==
    (AddRunning /\ GenerationFailed) =>
        /\ addMeta.title = IF addGiven.title = "" THEN "unnamed" ELSE addGiven.title
        /\ addMeta.tags = addGiven.tags
        /\ addMeta.source = IF addGiven.source = "" THEN "user_notes" ELSE addGiven.source
        /\ (addCollectionOk
            /\ split_text(addContent, cfgChunking[1], cfgChunking[2]).outcome = "returned") =>
              /\ pcAdd # "hung"
              /\ addChunks = split_text(addContent, cfgChunking[1], cfgChunking[2]).chunks
              /\ pcAdd = "raised" => BatchFailed
              /\ addDisturbed \/ HoldsChunks(addId, addChunks, addWritten, Len(addChunks), addMeta)

C21_Witness ==
    /\ pcAdd = "indexing" /\ GenerationFailed /\ addAi = "raised"
    /\ addGiven.title = "" /\ addGiven.tags # <<>>
    /\ addChunks # <<>> /\ addWritten = Len(addChunks)
    /\ \E c \in ChunksOf(addId) : c.title = "unnamed" /\ c.tags = addGiven.tags

\* C30: between calls, every raw content file belongs to an id that a
\* successful add handed to its caller and that no delete has removed since;
\* no raw file lies under an id the caller never received.
C30_RawFilesBelongToReturnedIds ==
    pcAdd = "idle" =>
        \A id \in rawFiles :
            /\ id \in returnedIds
            /\ ~(lastDelete.id = id /\ lastDelete.result = "deleted")

(* -------------------------- claims on the reads ----------------------- *)
ReadStep == pcRead' # pcRead \/ lastRead' # lastRead
DeleteActs == ~ReadStep /\ lastDelete' # lastDelete
FilesOf(b) == {f \in attachments : f[1] = b}
Untouched(b) ==
    /\ EntriesOf(b)' = EntriesOf(b)
    /\ (b \in rawFiles') = (b \in rawFiles)
    /\ FilesOf(b)' = FilesOf(b)

\* C22: however search, list and stats interleave with an add or a delete,
\* a read fails only when the index itself does not answer and never changes
\* the index or the files, and a step of add or delete on item A leaves every
\* chunk, raw file and attachment of any other item B as it was.
C22_ReadsAndOtherItemsUndisturbed ==
    [][/\ ReadStep =>
            /\ index' = index /\ rawFiles' = rawFiles /\ attachments' = attachments
            /\ lastRead'.outcome = "raised" => ~lastRead'.index_ok
       /\ \A b \in ItemIds :
            /\ (DeleteActs /\ b # lastDelete'.id) => Untouched(b)
            /\ (~DeleteActs /\ b \notin {addId, addId'}) => Untouched(b)]_vars

C22_Witness ==
    /\ lastRead.op = "search" /\ lastRead.outcome = "returned" /\ lastRead.items # <<>>
    /\ lastRead.size_seen > 0 /\ lastRead.size_seen < lastRead.size_read
    /\ pcAdd = "indexing" /\ addWritten > 0
    /\ \E b \in returnedIds : b # addId /\ b \in rawFiles /\ FilesOf(b) # {}

\* the cap and the empty case of search_knowledge
SearchCapped ==
    (lastRead.op = "search" /\ lastRead.outcome = "returned") =>
        /\ Len(lastRead.items) <= Min(lastRead.args.top_k, lastRead.size_read)
        /\ \A i \in 1..(Len(lastRead.items) - 1) :
              lastRead.items[i].dist <= lastRead.items[i + 1].dist
\* the index answered and was empty when search_knowledge tested it
SearchEmptyNeverRaises ==
    (lastRead.op = "search" /\ lastRead.index_ok /\ lastRead.size_checked = 0) =>
        /\ lastRead.outcome = "returned"
        /\ ~lastRead.queried
        /\ lastRead.items = <<>>

\* C23 as stated: at most min(top_k, index size) results in the order of the
\* index, each with relevance = 1 - distance exactly; an empty index gives an
\* empty list without a query and without raising.
C23_RelevanceIsOneMinusDistance ==
    /\ SearchCapped /\ SearchEmptyNeverRaises
    /\ \A i \in 1..Len(lastRead.items) :
          lastRead.op = "search" =>
              10 * lastRead.items[i].relevance = UNIT - lastRead.items[i].dist

\* C23 amended: at most min(top_k, the configured top_k, index size) results
\* in the order of the index, each with relevance = 1 - distance rounded to
\* four decimals; an empty index that answers gives an empty list without a
\* query and without raising.
C23_RelevanceIsRoundedOneMinusDistance ==
    /\ SearchCapped /\ SearchEmptyNeverRaises
    /\ (lastRead.op = "search" /\ lastRead.outcome = "returned") =>
          Len(lastRead.items) <= lastRead.args.cfg_top_k
    /\ \A i \in 1..Len(lastRead.items) :
          lastRead.op = "search" =>
              LET exact == UNIT - lastRead.items[i].dist
                  shown == 10 * lastRead.items[i].relevance
              IN  shown - exact <= 5 /\ exact - shown <= 5

C23_Witness ==
    /\ lastRead.op = "search" /\ lastRead.outcome = "returned"
    /\ Len(lastRead.items) = lastRead.args.top_k /\ Len(lastRead.items) >= 2
    /\ Len(lastRead.items) < lastRead.size_read
    /\ \E i \in 1..Len(lastRead.items) :
          10 * lastRead.items[i].relevance # UNIT - lastRead.items[i].dist

(* ------------------------ claims on the singletons -------------------- *)
\* thread t waits for _init_lock while holding it itself: with a lock that
\* is not re-entrant no step of t or of any other thread ever ends the wait
SelfBlocked(t) == stack[t] # <<>> /\ Top(t).pc = "lock" /\ init_lock = t

\* C28: a call of get_collection made while nothing is initialised never
\* blocks for ever on _init_lock: no thread comes to wait for the lock while
\* it is the thread that holds it.
C28_NoSelfDeadlock == \A t \in Threads : ~SelfBlocked(t)

\* C29: each of the client, the embedding function and the collection is
\* constructed at most once, and every call that returns a value returns the
\* one instance held in the module global.
C29_ConstructedOnce ==
    /\ \A k \in Singletons : built[k] <= 1 /\ instances[k] = built[k]
    /\ \A t \in Threads :
          ret[t].st = "value" =>
              ret[t].inst = 1 /\ instances[GlobalOf(ret[t].fn)] = ret[t].inst

C29_Witness ==
    /\ \A k \in Singletons : built[k] = 1
    /\ \A t \in Threads :
          stack[t] = <<>> /\ ret[t] = Value("get_collection", 1)
    /\ callsLeft = 0

=============================================================================
